---- MODULE Spec2Model ----
(***************************************************************************)
(* Weather acquisition pipeline of WeatherService                          *)
(* (src/src/services/competition-admin.service.ts, lines 323-619).         *)
(*                                                                         *)
(* Numbers are exact rationals [n |-> numerator, d |-> denominator]; the   *)
(* JavaScript values Infinity, -Infinity and NaN are the records with      *)
(* d = 0 and n = 1, -1, 0.  Strings that the code parses are sequences of  *)
(* one-character strings.                                                  *)
(***************************************************************************)
EXTENDS Integers, Sequences, FiniteSets, TLC

\* ------------------------------------------------------------------------
\* Bounds of the model
\* ------------------------------------------------------------------------
MaxTime == 1            \* the clock runs from StartTime to MaxTime
MaxInvocations == 2     \* fetchWeatherForEdition invocations per behaviour
MaxAdminCalls == 3      \* CompetitionAdminService invocations per behaviour
MaxHours == 3           \* longest hourly series the aggregation is fed

\* ------------------------------------------------------------------------
\* Numbers
\* ------------------------------------------------------------------------
Rat(n, d) == [n |-> n, d |-> d]
Infinity == Rat(1, 0)
NegInfinity == Rat(-1, 0)
NaN == Rat(0, 0)
Zero == Rat(0, 1)
\* a <= b, a < b, a > k as JavaScript compares numbers (NaN compares false)
Leq(a, b) == /\ a # NaN /\ b # NaN
             /\ a.n * b.d <= b.n * a.d
Gt(a, k) == a.n > k * a.d
Tenths(v) == Rat(v, 10)

\* Math.round: nearest integer, halves towards +Infinity; Infinity stays
MathRound(r) ==
    IF r.d = 0 THEN r ELSE Rat((2 * r.n + r.d) \div (2 * r.d), 1)
\* Math.round(x * 10) / 10
RoundOneDecimal(r) ==
    IF r.d = 0 THEN r ELSE Rat(MathRound(Rat(r.n * 10, r.d)).n, 10)

\* a null entry of an hourly series (missing observation)
NullNum == Rat(0, -1)

\* ------------------------------------------------------------------------
\* WeatherService: aggregation helpers
\* ------------------------------------------------------------------------
RECURSIVE SumSeq(_)
SumSeq(s) == IF s = <<>> THEN 0 ELSE Head(s).n + SumSeq(Tail(s))

\* values.filter((v) => v !== null)
FilterNonNull(values) == SelectSeq(values, LAMBDA v : v # NullNum)

\* the hourly entries are decimals with one fractional digit (denominator 10)
calculateAverage(values) ==
    LET validValues == FilterNonNull(values)
    IN  IF Len(validValues) = 0 THEN Zero
        ELSE Rat(SumSeq(validValues), 10 * Len(validValues))

RECURSIVE MinSeq(_)
MinSeq(s) == IF s = <<>> THEN Infinity
             ELSE LET m == MinSeq(Tail(s))
                  IN  IF Leq(Head(s), m) THEN Head(s) ELSE m
RECURSIVE MaxSeq(_)
MaxSeq(s) == IF s = <<>> THEN NegInfinity
             ELSE LET m == MaxSeq(Tail(s))
                  IN  IF Leq(m, Head(s)) THEN Head(s) ELSE m
\* Math.min(...xs.filter(t => t !== null)), Math.max(...)
MathMinNonNull(values) == MinSeq(FilterNonNull(values))
MathMaxNonNull(values) == MaxSeq(FilterNonNull(values))

\* precipitation.reduce((sum, val) => sum + (val || 0), 0)
TotalPrecipitation(values) == Rat(SumSeq(FilterNonNull(values)), 10)

\* lines 598-608 with the cloud-cover branches tested first
determineConditionCloudFirst(params) ==
    IF Gt(params.cloudCover, 75) THEN [code |-> "cloudy", text |-> "Nublado"]
    ELSE IF Gt(params.cloudCover, 30)
         THEN [code |-> "partly_cloudy", text |-> "Parcialmente nublado"]
    ELSE IF Gt(params.precipitation, 10)
         THEN [code |-> "rainy", text |-> "Lluvioso"]
    ELSE IF Gt(params.precipitation, 0)
         THEN [code |-> "light_rain", text |-> "Lluvia ligera"]
    ELSE [code |-> "sunny", text |-> "Soleado"]
\* lines 592-609
determineCondition(params) ==
    IF Gt(params.precipitation, 10) THEN [code |-> "rainy", text |-> "Lluvioso"]
    ELSE IF Gt(params.precipitation, 0)
         THEN [code |-> "light_rain", text |-> "Lluvia ligera"]
    ELSE IF Gt(params.cloudCover, 75) THEN [code |-> "cloudy", text |-> "Nublado"]
    ELSE IF Gt(params.cloudCover, 30)
         THEN [code |-> "partly_cloudy", text |-> "Parcialmente nublado"]
    ELSE [code |-> "sunny", text |-> "Soleado"]

directions == <<"N", "NE", "E", "SE", "S", "SW", "W", "NW">>
\* directions[Math.round(degrees / 45) % 8]; sequences here start at 1
getWindDirection(degrees) ==
    directions[(MathRound(Rat(degrees.n, degrees.d * 45)).n % 8) + 1]

\* lines 364-403 with the humidity average handed to determineCondition in
\* place of the cloud cover average
AggregateHourlyHumidityCondition(hourly, date, fetchedAt) ==
    LET avgTemp == calculateAverage(hourly.temperature_2m)
        minTemp == MathMinNonNull(hourly.temperature_2m)
        maxTemp == MathMaxNonNull(hourly.temperature_2m)
        avgHumidity == calculateAverage(hourly.relative_humidity_2m)
        totalPrecip == TotalPrecipitation(hourly.precipitation)
        avgPressure == calculateAverage(hourly.surface_pressure)
        avgCloudCover == calculateAverage(hourly.cloud_cover)
        avgWindSpeed == calculateAverage(hourly.wind_speed_10m)
        avgWindDirection == calculateAverage(hourly.wind_direction_10m)
        condition == determineCondition([precipitation |-> totalPrecip,
                                         cloudCover |-> avgHumidity])
    IN  [date |-> date,
         temperature |-> [avg |-> RoundOneDecimal(avgTemp),
                          min |-> RoundOneDecimal(minTemp),
                          max |-> RoundOneDecimal(maxTemp)],
         condition |-> condition.code,
         conditionText |-> condition.text,
         precipitation |-> RoundOneDecimal(totalPrecip),
         wind |-> [speed |-> RoundOneDecimal(avgWindSpeed),
                   direction |-> MathRound(avgWindDirection),
                   directionText |-> getWindDirection(avgWindDirection)],
         humidity |-> MathRound(avgHumidity),
         pressure |-> MathRound(avgPressure),
         cloudCover |-> MathRound(avgCloudCover),
         fetchedAt |-> fetchedAt]
\* lines 364-403: the EditionWeather built from the hourly object
AggregateHourly(hourly, date, fetchedAt) ==
    LET avgTemp == calculateAverage(hourly.temperature_2m)
        minTemp == MathMinNonNull(hourly.temperature_2m)
        maxTemp == MathMaxNonNull(hourly.temperature_2m)
        avgHumidity == calculateAverage(hourly.relative_humidity_2m)
        totalPrecip == TotalPrecipitation(hourly.precipitation)
        avgPressure == calculateAverage(hourly.surface_pressure)
        avgCloudCover == calculateAverage(hourly.cloud_cover)
        avgWindSpeed == calculateAverage(hourly.wind_speed_10m)
        avgWindDirection == calculateAverage(hourly.wind_direction_10m)
        condition == determineCondition([precipitation |-> totalPrecip,
                                         cloudCover |-> avgCloudCover])
    IN  [date |-> date,
         temperature |-> [avg |-> RoundOneDecimal(avgTemp),
                          min |-> RoundOneDecimal(minTemp),
                          max |-> RoundOneDecimal(maxTemp)],
         condition |-> condition.code,
         conditionText |-> condition.text,
         precipitation |-> RoundOneDecimal(totalPrecip),
         wind |-> [speed |-> RoundOneDecimal(avgWindSpeed),
                   direction |-> MathRound(avgWindDirection),
                   directionText |-> getWindDirection(avgWindDirection)],
         humidity |-> MathRound(avgHumidity),
         pressure |-> MathRound(avgPressure),
         cloudCover |-> MathRound(avgCloudCover),
         fetchedAt |-> fetchedAt]

\* ------------------------------------------------------------------------
\* Errors.  A message is a sequence of text pieces, so that a message built
\* by interpolation contains the interpolated message as a suffix.
\* ------------------------------------------------------------------------
AppError(message, status) ==
    [isAppError |-> TRUE, hasResponse |-> FALSE, status |-> status,
     message |-> message]
\* an error thrown by axios or by the runtime: error.response?.status is
\* defined only when the upstream answered
ForeignError(hasResponse, status, message) ==
    [isAppError |-> FALSE, hasResponse |-> hasResponse, status |-> status,
     message |-> message]
NoError == [isAppError |-> FALSE, hasResponse |-> FALSE, status |-> 0,
            message |-> <<>>]

MsgNoHourly == <<"No weather data available for this date">>
MsgUpstream404 == <<"Weather data not available for this location/date">>
MsgFetchPrefix == <<"Error fetching weather data: ">>
MsgNotFound == <<"Edition not found">>
MsgAlreadyFetched == <<"Weather data already fetched. Use force=true to refetch.">>
MsgFuture == <<"Cannot fetch weather for future editions">>
MsgBadEditionLocation == <<"Invalid edition location format">>
MsgBadEventLocation == <<"Invalid event location format">>
MsgNoLocation == <<"No location data available for this edition">>
MsgTypeError == <<"Cannot read properties of undefined (reading 'length')">>

NoWeather == [isNull |-> TRUE]

\* ------------------------------------------------------------------------
\* WeatherService.getHistoricalWeather
\* An upstream outcome is either a resolved response (kind "data": its body
\* may lack hourly, or carry an hourly object without its arrays) or a
\* rejected request (kind "error").
\* ------------------------------------------------------------------------
Returned(value) == [threw |-> FALSE, value |-> value, error |-> NoError]
Threw(error) == [threw |-> TRUE, value |-> NoWeather, error |-> error]

\* lines 333-405, the body of the try block
TryBody(outcome, date, now) ==
    IF outcome.kind = "error"
    THEN Threw(ForeignError(outcome.hasResponse, outcome.status, outcome.message))
    ELSE IF ~outcome.hasHourly THEN Threw(AppError(MsgNoHourly, 404))
    ELSE IF ~outcome.hasArrays THEN Threw(ForeignError(FALSE, 0, MsgTypeError))
    ELSE Returned(AggregateHourly(outcome.hourly, date, now))

\* lines 406-419 without the instanceof AppError pass-through
CatchBlockRewraps(error) ==
    IF error.hasResponse /\ error.status = 404
    THEN AppError(MsgUpstream404, 404)
    ELSE AppError(MsgFetchPrefix \o error.message, 500)
\* lines 406-419, the catch block
CatchBlock(error) ==
    IF error.isAppError THEN error
    ELSE IF error.hasResponse /\ error.status = 404
         THEN AppError(MsgUpstream404, 404)
    ELSE AppError(MsgFetchPrefix \o error.message, 500)

\* lines 327-420 with a catch block that returns null instead of throwing
getHistoricalWeatherSwallows(outcome, date, now) ==
    LET r == TryBody(outcome, date, now)
    IN  IF r.threw THEN Returned(NoWeather) ELSE r
\* lines 327-420
getHistoricalWeather(outcome, date, now) ==
    LET r == TryBody(outcome, date, now)
    IN  IF r.threw THEN Threw(CatchBlock(r.error)) ELSE r

\* ------------------------------------------------------------------------
\* Location strings
\* ------------------------------------------------------------------------
Digits == {"0", "1", "2", "3", "4", "5", "6", "7", "8", "9"}
DigitVal(c) == CASE c = "0" -> 0 [] c = "1" -> 1 [] c = "2" -> 2 [] c = "3" -> 3
                 [] c = "4" -> 4 [] c = "5" -> 5 [] c = "6" -> 6 [] c = "7" -> 7
                 [] c = "8" -> 8 [] c = "9" -> 9
NumClass == Digits \cup {".", "-"}          \* [0-9.-]
WhiteSpace == {" "}                         \* \s
PointPrefix == <<"P", "O", "I", "N", "T", "(">>

\* length of the longest prefix of s[i..] made of characters of class
RECURSIVE RunLen(_, _, _)
RunLen(s, i, class) ==
    IF i <= Len(s) /\ s[i] \in class THEN 1 + RunLen(s, i + 1, class) ELSE 0

\* the match of /POINT\(([0-9.-]+)\s+([0-9.-]+)\)/ that starts at index i:
\* the three classes and ")" are disjoint, so the greedy runs are the only
\* candidates
MatchAt(s, i) ==
    LET g1 == i + Len(PointPrefix)
        n1 == RunLen(s, g1, NumClass)
        w == g1 + n1
        nw == RunLen(s, w, WhiteSpace)
        g2 == w + nw
        n2 == RunLen(s, g2, NumClass)
        close == g2 + n2
    IN  IF /\ i + Len(PointPrefix) - 1 <= Len(s)
           /\ SubSeq(s, i, i + Len(PointPrefix) - 1) = PointPrefix
           /\ n1 >= 1 /\ nw >= 1 /\ n2 >= 1
           /\ close <= Len(s) /\ s[close] = ")"
        THEN [ok |-> TRUE, g1 |-> SubSeq(s, g1, g1 + n1 - 1),
              g2 |-> SubSeq(s, g2, g2 + n2 - 1)]
        ELSE [ok |-> FALSE, g1 |-> <<>>, g2 |-> <<>>]

\* locationStr.match(...): the leftmost match, or null
PointMatch(s) ==
    LET starts == {i \in 1..Len(s) : MatchAt(s, i).ok}
    IN  IF starts = {} THEN [ok |-> FALSE, g1 |-> <<>>, g2 |-> <<>>]
        ELSE MatchAt(s, CHOOSE i \in starts : \A j \in starts : i <= j)

RECURSIVE DigitsValue(_)
DigitsValue(ds) ==
    IF ds = <<>> THEN 0
    ELSE 10 * DigitsValue(SubSeq(ds, 1, Len(ds) - 1)) + DigitVal(ds[Len(ds)])
RECURSIVE Pow10(_)
Pow10(k) == IF k = 0 THEN 1 ELSE 10 * Pow10(k - 1)

\* parseFloat on a string of [0-9.-]: optional sign, digits, optional
\* fraction; the longest numeric prefix is used, NaN if it has no digit
parseFloat(s) ==
    LET neg == Len(s) >= 1 /\ s[1] = "-"
        i0 == IF neg THEN 2 ELSE 1
        ni == RunLen(s, i0, Digits)
        dot == i0 + ni
        hasDot == dot <= Len(s) /\ s[dot] = "."
        nf == IF hasDot THEN RunLen(s, dot + 1, Digits) ELSE 0
        ip == DigitsValue(SubSeq(s, i0, i0 + ni - 1))
        fp == DigitsValue(SubSeq(s, dot + 1, dot + nf))
        mag == ip * Pow10(nf) + fp
    IN  IF ni + nf = 0 THEN NaN
        ELSE Rat(IF neg THEN 0 - mag ELSE mag, Pow10(nf))

\* a nullable location column: null, or a string
NullLocation == [isNull |-> TRUE, str |-> <<>>]
Location(str) == [isNull |-> FALSE, str |-> str]
\* JavaScript truthiness of the column: null and "" are falsy
Truthy(loc) == ~loc.isNull /\ Len(loc.str) > 0

NoCoordinates == [resolved |-> FALSE, source |-> "none",
                  latitude |-> NaN, longitude |-> NaN]

\* lines 511-518 and 521-528: parse one location string
ParseLocation(loc, source, message) ==
    LET match == PointMatch(loc.str)
    IN  IF match.ok
        THEN [ok |-> TRUE, error |-> NoError,
              coords |-> [resolved |-> TRUE, source |-> source,
                          longitude |-> parseFloat(match.g1),
                          latitude |-> parseFloat(match.g2)]]
        ELSE [ok |-> FALSE, error |-> AppError(message, 500),
              coords |-> NoCoordinates]

\* lines 504-531: coordinates of the edition, else of its event
ResolveCoordinates(edition) ==
    IF Truthy(edition.location)
    THEN ParseLocation(edition.location, "edition", MsgBadEditionLocation)
    ELSE IF Truthy(edition.eventLocation)
    THEN ParseLocation(edition.eventLocation, "event", MsgBadEventLocation)
    ELSE [ok |-> FALSE, error |-> AppError(MsgNoLocation, 400),
          coords |-> NoCoordinates]

\* ------------------------------------------------------------------------
\* Time.  The clock counts ticks; a calendar day has TicksPerDay ticks.
\* ------------------------------------------------------------------------
TicksPerDay == 2
\* editionDate.toISOString().split('T')[0]: the calendar day, time dropped
toISODate(t) == t \div TicksPerDay

\* line 492 with the force flag read the wrong way round
AlreadyFetchedForceInverted(edition, force) == edition.weatherFetched /\ force
\* line 492
AlreadyFetched(edition, force) == edition.weatherFetched /\ ~force
\* line 500 with the comparison turned round
IsFutureInverted(editionDate, now) == editionDate < now
\* line 500
IsFuture(editionDate, now) == editionDate > now

\* lines 487-534: everything fetchWeatherForEdition decides between the
\* load of the edition and the request to the weather API
CheckAndResolve(found, edition, force, now) ==
    IF ~found
    THEN [ok |-> FALSE, error |-> AppError(MsgNotFound, 404),
          coords |-> NoCoordinates]
    ELSE IF AlreadyFetched(edition, force)
    THEN [ok |-> FALSE, error |-> AppError(MsgAlreadyFetched, 400),
          coords |-> NoCoordinates]
    ELSE IF IsFuture(edition.startDate, now)
    THEN [ok |-> FALSE, error |-> AppError(MsgFuture, 400),
          coords |-> NoCoordinates]
    ELSE ResolveCoordinates(edition)

\* lines 544-549 without weatherFetched: true
UpdateDataWithoutFlag(edition, weather) == [edition EXCEPT !.weather = weather]
\* lines 544-549 without the weather value
UpdateDataWithoutWeather(edition, weather) ==
    [edition EXCEPT !.weatherFetched = TRUE]
\* lines 544-549 as an update that only claims an unfetched edition
UpdateDataFirstWins(edition, weather) ==
    IF edition.weatherFetched THEN edition
    ELSE [edition EXCEPT !.weather = weather, !.weatherFetched = TRUE]
\* lines 544-549: data of prisma.edition.update
UpdateData(edition, weather) ==
    [edition EXCEPT !.weather = weather, !.weatherFetched = TRUE]

\* ------------------------------------------------------------------------
\* Inputs
\* ------------------------------------------------------------------------
\* "POINT(-3.7038 40.4168)"
StrMadrid ==
    <<"P", "O", "I", "N", "T", "(", "-", "3", ".", "7", "0", "3", "8", " ",
      "4", "0", ".", "4", "1", "6", "8", ")">>
\* "SRID=1;POINT(2.5 41)"
StrPrefixed ==
    <<"S", "R", "I", "D", "=", "1", ";", "P", "O", "I", "N", "T", "(", "2",
      ".", "5", " ", "4", "1", ")">>
\* "POINT(1,2)"
StrComma ==
    <<"P", "O", "I", "N", "T", "(", "1", ",", "2", ")">>
\* "POINT(- 1)"
StrDash ==
    <<"P", "O", "I", "N", "T", "(", "-", " ", "1", ")">>
\* "POINT(1.2.3 4)"
StrDots ==
    <<"P", "O", "I", "N", "T", "(", "1", ".", "2", ".", "3", " ", "4", ")">>
\* "POINT(10 -20.5)"
StrEvent ==
    <<"P", "O", "I", "N", "T", "(", "1", "0", " ", "-", "2", "0", ".", "5",
      ")">>
\* "LINE(1 2)"
StrLine ==
    <<"L", "I", "N", "E", "(", "1", " ", "2", ")">>

NoRow == [startDate |-> 0, location |-> NullLocation,
          eventLocation |-> NullLocation, weather |-> NoWeather,
          weatherFetched |-> FALSE]
\* a new edition: weather and weatherFetched start null / false
NewEdition(startDate, location, eventLocation) ==
    [NoRow EXCEPT !.startDate = startDate, !.location = location,
                  !.eventLocation = eventLocation]
EditionLocations ==
    {NullLocation, Location(<<>>), Location(StrMadrid), Location(StrPrefixed),
     Location(StrComma), Location(StrDash), Location(StrDots)}
EventLocations == {NullLocation, Location(StrEvent), Location(StrLine)}
PastDate == 0
FutureDate == 1
\* the editions the table may hold: one that has taken place, with each way
\* its coordinates may resolve or fail to, and one still to come
Editions ==
    {NewEdition(PastDate, Location(StrMadrid), NullLocation),
     NewEdition(PastDate, Location(StrComma), Location(StrEvent)),
     NewEdition(PastDate, Location(StrDash), NullLocation),
     NewEdition(PastDate, Location(<<>>), Location(StrEvent)),
     NewEdition(PastDate, NullLocation, Location(StrLine)),
     NewEdition(PastDate, NullLocation, NullLocation),
     NewEdition(FutureDate, Location(StrMadrid), NullLocation)}

Series(vals) == [i \in 1..Len(vals) |-> Tenths(vals[i])]
HourlyOf(t, h, p, sp, cc, ws, wd) ==
    [time |-> [i \in 1..Len(t) |-> i],
     temperature_2m |-> t, relative_humidity_2m |-> h, precipitation |-> p,
     surface_pressure |-> sp, cloud_cover |-> cc, wind_speed_10m |-> ws,
     wind_direction_10m |-> wd]
\* hourly values are written in tenths: 124 is 12.4
HourlyRain ==
    HourlyOf(Series(<<124, 125>>), Series(<<800, 810>>), Series(<<75, 75>>),
             Series(<<10132, 10129>>), Series(<<500, 500>>),
             Series(<<100, 125>>), Series(<<900, 1800>>))
\* a day the archive has not filled in yet: every observation is null
HourlyNulls ==
    LET nulls == <<NullNum, NullNum>>
    IN  HourlyOf(nulls, nulls, nulls, nulls, nulls, nulls, nulls)
NoHourly == HourlyOf(<<>>, <<>>, <<>>, <<>>, <<>>, <<>>, <<>>)

DataOutcome(hourly) ==
    [kind |-> "data", hasHourly |-> TRUE, hasArrays |-> TRUE, hourly |-> hourly,
     hasResponse |-> TRUE, status |-> 200, message |-> <<>>]
BodyWithoutHourly == [DataOutcome(NoHourly) EXCEPT !.hasHourly = FALSE]
HourlyWithoutArrays == [DataOutcome(NoHourly) EXCEPT !.hasArrays = FALSE]
ErrorOutcome(hasResponse, status, message) ==
    [kind |-> "error", hasHourly |-> FALSE, hasArrays |-> FALSE,
     hourly |-> NoHourly, hasResponse |-> hasResponse, status |-> status,
     message |-> message]
ErrorOutcomes ==
    {ErrorOutcome(TRUE, 404, <<"Request failed with status code 404">>),
     ErrorOutcome(TRUE, 500, <<"Request failed with status code 500">>),
     ErrorOutcome(FALSE, 0, <<"timeout of 0ms exceeded">>)}
\* what the weather API may answer to one request of the pipeline
PipelineOutcomes ==
    {DataOutcome(HourlyRain), DataOutcome(HourlyNulls), BodyWithoutHourly,
     ErrorOutcome(TRUE, 404, <<"Request failed with status code 404">>),
     ErrorOutcome(FALSE, 0, <<"timeout of 0ms exceeded">>)}

\* ------------------------------------------------------------------------
\* State
\* ------------------------------------------------------------------------
EditionId == "e1"
MissingId == "e0"
Calls == {"c1", "c2"}

VARIABLES
    editions,       \* the edition table: id -> row
    now,            \* the clock
    calls,          \* the invocations of fetchWeatherForEdition in progress
    started,        \* invocations of fetchWeatherForEdition so far
    forceUsed,      \* some invocation so far passed force = true
    overlapped,     \* some invocation loaded the edition while another was
                    \* between its load and its write
    writeCount,     \* prisma.edition.update calls so far
    lastRead,       \* what getEditionWeather returned or threw, if the
                    \* last step was a getEditionWeather
    aggInput,       \* getHistoricalWeather alone: the upstream outcome
    aggOutput,      \* getHistoricalWeather alone: what it returned or threw
    chkInput,       \* the preconditions alone: the row loaded, force, clock
    chkOutput,      \* the preconditions alone: what they decided
    competitions,   \* the competition table: id -> row
    adminCalls,     \* the CompetitionAdminService invocations in progress
    adminStarted,   \* CompetitionAdminService invocations so far
    cache           \* the cache keys that hold an entry

vars == <<editions, now, calls, started, forceUsed, overlapped, writeCount,
          lastRead, aggInput, aggOutput, chkInput, chkOutput, competitions,
          adminCalls, adminStarted, cache>>
pipelineVars == <<editions, now, calls, started, forceUsed, overlapped,
                  writeCount, lastRead>>
aggVars == <<aggInput, aggOutput, chkInput, chkOutput>>
adminVars == <<competitions, adminCalls, adminStarted, cache>>

\* prisma.edition.findUnique({ where: { id } })
FindUnique(table, id) ==
    IF id \in DOMAIN table THEN [found |-> TRUE, row |-> table[id]]
    ELSE [found |-> FALSE, row |-> NoRow]

IdleCall ==
    [pc |-> "idle", editionId |-> MissingId, force |-> FALSE,
     sawFound |-> FALSE, sawFetched |-> FALSE, sawFuture |-> FALSE,
     coords |-> NoCoordinates, date |-> 0,
     weather |-> NoWeather, result |-> NoWeather, error |-> NoError,
     apiCalls |-> 0, writes |-> 0, errors |-> 0]

NotRun == [ran |-> FALSE, threw |-> FALSE, value |-> NoWeather, error |-> NoError]
NoRead == [ran |-> FALSE, found |-> FALSE, weather |-> NoWeather,
           weatherFetched |-> FALSE, error |-> NoError]

NoCheckInput == [found |-> FALSE, row |-> NoRow, force |-> FALSE, now |-> 0]
NoCheck == [ran |-> FALSE, ok |-> FALSE, error |-> NoError,
            coords |-> NoCoordinates]

InFlight(c) == calls[c].pc \in {"calling", "saving"}

\* ------------------------------------------------------------------------
\* CompetitionAdminService: approveCompetition, rejectCompetition,
\* updateCompetitionStatus (lines 73-182 and 265-292)
\* ------------------------------------------------------------------------
CompetitionId == "k1"
MissingCompetitionId == "k0"
AdminCalls == {"a1", "a2"}
CompetitionStatus == {"DRAFT", "PUBLISHED", "CANCELLED"}
BaseDescription == <<"description">>
CacheKeys == {"competition:k1", "competition:k0", "competitions:list"}

NoCompetition == [status |-> "DRAFT", description |-> <<>>]
ErrCompetitionNotFound == "Competition not found"
ErrOnlyDraftApproved == "Only DRAFT competitions can be approved"
ErrOnlyDraftRejected == "Only DRAFT competitions can be rejected"

\* prisma.competition.findUnique({ where: { id } })
FindCompetition(table, id) ==
    IF id \in DOMAIN table THEN [found |-> TRUE, row |-> table[id]]
    ELSE [found |-> FALSE, row |-> NoCompetition]

\* lines 87-93, 147-153, 274-276: the checks after the load; "" is no error
CheckCompetition(op, found, competition) ==
    IF ~found THEN ErrCompetitionNotFound
    ELSE IF op = "approve" /\ competition.status # "DRAFT"
    THEN ErrOnlyDraftApproved
    ELSE IF op = "reject" /\ competition.status # "DRAFT"
    THEN ErrOnlyDraftRejected
    ELSE ""

\* lines 96-104, 157-163, 278-281: the data of prisma.competition.update,
\* applied to the row as it is when the update runs; loaded is the row the
\* invocation read, text the admin notes or the rejection reason ("" when
\* no notes were given), newStatus the status asked for
UpdateCompetition(op, current, loaded, text, newStatus) ==
    IF op = "approve"
    THEN [status |-> "PUBLISHED",
          description |-> IF text # ""
                          THEN loaded.description \o <<"Notas admin: ", text>>
                          ELSE current.description]
    ELSE IF op = "reject"
    THEN [status |-> current.status,
          description |-> loaded.description \o <<"RECHAZADA: ", text>>]
    ELSE [status |-> newStatus, description |-> current.description]

IdleAdminCall ==
    [pc |-> "idle", op |-> "approve", id |-> MissingCompetitionId,
     text |-> "", newStatus |-> "DRAFT", found |-> FALSE,
     loaded |-> NoCompetition, before |-> NoCompetition,
     after |-> NoCompetition, wrote |-> FALSE, error |-> ""]

AdminAtRest ==
    /\ competitions = [i \in {CompetitionId} |->
                          [status |-> "DRAFT", description |-> BaseDescription]]
    /\ adminCalls = [a \in AdminCalls |-> IdleAdminCall]
    /\ adminStarted = 0
    /\ cache = CacheKeys

\* the load and the checks of the three operations
AdminLoad(a, op, id, text, newStatus) ==
    /\ adminCalls[a].pc = "idle"
    /\ adminStarted < MaxAdminCalls
    /\ LET q == FindCompetition(competitions, id)
           err == CheckCompetition(op, q.found, q.row)
       IN  adminCalls' = [adminCalls EXCEPT ![a] =
                [IdleAdminCall EXCEPT
                    !.pc = IF err = "" THEN "updating" ELSE "failed",
                    !.op = op, !.id = id, !.text = text,
                    !.newStatus = newStatus, !.found = q.found,
                    !.loaded = q.row, !.error = err]]
    /\ adminStarted' = adminStarted + 1
    /\ UNCHANGED <<competitions, cache, pipelineVars, aggVars>>

\* prisma.competition.update of the three operations; rejectCompetition
\* returns after it, the other two go on to invalidate the cache
AdminUpdate(a) ==
    /\ adminCalls[a].pc = "updating"
    /\ LET c == adminCalls[a]
           row == UpdateCompetition(c.op, competitions[c.id], c.loaded,
                                    c.text, c.newStatus)
       IN  /\ competitions' = [competitions EXCEPT ![c.id] = row]
           /\ adminCalls' = [adminCalls EXCEPT ![a] =
                    [@ EXCEPT !.pc = IF c.op = "reject" THEN "done"
                                     ELSE "invalidating",
                              !.before = competitions[c.id],
                              !.after = row,
                              !.wrote = TRUE]]
    /\ UNCHANGED <<adminStarted, cache, pipelineVars, aggVars>>

\* lines 117 and 284: invalidateCache(`competition:${competitionId}`)
InvalidateCompetition(a) ==
    /\ adminCalls[a].pc = "invalidating"
    /\ cache' = cache \ {"competition:" \o adminCalls[a].id}
    /\ adminCalls' = [adminCalls EXCEPT ![a].pc = "invalidatingList"]
    /\ UNCHANGED <<competitions, adminStarted, pipelineVars, aggVars>>

\* lines 118 and 285: invalidateCache('competitions:list')
InvalidateList(a) ==
    /\ adminCalls[a].pc = "invalidatingList"
    /\ cache' = cache \ {"competitions:list"}
    /\ adminCalls' = [adminCalls EXCEPT ![a].pc = "done"]
    /\ UNCHANGED <<competitions, adminStarted, pipelineVars, aggVars>>

\* the invocation has returned or thrown; its slot serves the next request
AdminReturn(a) ==
    /\ adminCalls[a].pc \in {"done", "failed"}
    /\ adminCalls' = [adminCalls EXCEPT ![a] = IdleAdminCall]
    /\ UNCHANGED <<competitions, adminStarted, cache, pipelineVars, aggVars>>

InitPipeline ==
    /\ \E e \in Editions : editions = [i \in {EditionId} |-> e]
    /\ now = 0
    /\ calls = [c \in Calls |-> IdleCall]
    /\ started = 0
    /\ forceUsed = FALSE
    /\ overlapped = FALSE
    /\ writeCount = 0
    /\ lastRead = NoRead

Init ==
    /\ InitPipeline
    /\ AdminAtRest
    /\ aggInput = BodyWithoutHourly
    /\ aggOutput = NotRun
    /\ chkInput = NoCheckInput
    /\ chkOutput = NoCheck

\* fetchWeatherForEdition, lines 474-541: load the edition, check the
\* preconditions, resolve the coordinates and send the request to the API
Load(c, id, force) ==
    /\ calls[c].pc = "idle"
    /\ started < MaxInvocations
    /\ LET q == FindUnique(editions, id)
           r == CheckAndResolve(q.found, q.row, force, now)
       IN  calls' = [calls EXCEPT ![c] =
                [IdleCall EXCEPT
                    !.pc = IF r.ok THEN "calling" ELSE "failed",
                    !.editionId = id,
                    !.force = force,
                    !.sawFound = q.found,
                    !.sawFetched = q.row.weatherFetched,
                    !.sawFuture = q.found /\ q.row.startDate > now,
                    !.coords = r.coords,
                    !.date = IF r.ok THEN toISODate(q.row.startDate) ELSE 0,
                    !.error = r.error,
                    !.errors = IF r.ok THEN 0 ELSE 1,
                    !.apiCalls = IF r.ok THEN 1 ELSE 0]]
    /\ started' = started + 1
    /\ forceUsed' = (forceUsed \/ force)
    /\ overlapped' = (overlapped \/ \E d \in Calls \ {c} : InFlight(d))
    /\ lastRead' = NoRead
    /\ UNCHANGED <<editions, now, writeCount, aggVars, adminVars>>

\* lines 537-541: the API answers (or the request fails) and
\* getHistoricalWeather returns or throws
Respond(c, outcome) ==
    /\ calls[c].pc = "calling"
    /\ LET r == getHistoricalWeather(outcome, calls[c].date, now)
       IN  calls' = [calls EXCEPT ![c] =
                [@ EXCEPT !.pc = IF r.threw THEN "failed" ELSE "saving",
                          !.weather = r.value,
                          !.error = r.error,
                          !.errors = IF r.threw THEN @ + 1 ELSE @]]
    /\ lastRead' = NoRead
    /\ UNCHANGED <<editions, now, started, forceUsed, overlapped, writeCount,
                   aggVars, adminVars>>

\* lines 544-578: write weather and weatherFetched, return the stored value
Persist(c) ==
    /\ calls[c].pc = "saving"
    /\ LET id == calls[c].editionId
           row == UpdateData(editions[id], calls[c].weather)
       IN  /\ editions' = [editions EXCEPT ![id] = row]
           /\ calls' = [calls EXCEPT ![c] =
                    [@ EXCEPT !.pc = "done", !.result = row.weather,
                              !.writes = @ + 1]]
    /\ writeCount' = writeCount + 1
    /\ lastRead' = NoRead
    /\ UNCHANGED <<now, started, forceUsed, overlapped, aggVars, adminVars>>

\* the invocation has returned or thrown; its slot serves the next request
Return(c) ==
    /\ calls[c].pc \in {"done", "failed"}
    /\ calls' = [calls EXCEPT ![c] = IdleCall]
    /\ lastRead' = NoRead
    /\ UNCHANGED <<editions, now, started, forceUsed, overlapped, writeCount,
                   aggVars, adminVars>>

\* getEditionWeather, lines 425-469
GetEditionWeather(id) ==
    /\ LET q == FindUnique(editions, id)
       IN  lastRead' =
             IF ~q.found
             THEN [NoRead EXCEPT !.ran = TRUE,
                                 !.error = AppError(MsgNotFound, 404)]
             ELSE [NoRead EXCEPT !.ran = TRUE, !.found = TRUE,
                                 !.weather = q.row.weather,
                                 !.weatherFetched = q.row.weatherFetched]
    /\ UNCHANGED <<editions, now, calls, started, forceUsed, overlapped,
                   writeCount, aggVars, adminVars>>

\* time passes
Tick ==
    /\ now < MaxTime
    /\ now' = now + 1
    /\ lastRead' = NoRead
    /\ UNCHANGED <<editions, calls, started, forceUsed, overlapped, writeCount,
                   aggVars, adminVars>>

Next ==
    \/ \E c \in Calls, id \in {EditionId, MissingId}, force \in BOOLEAN :
          Load(c, id, force)
    \/ \E c \in Calls, outcome \in PipelineOutcomes : Respond(c, outcome)
    \/ \E c \in Calls : Persist(c)
    \/ \E c \in Calls : Return(c)
    \/ \E id \in {EditionId, MissingId} : GetEditionWeather(id)
    \/ Tick

Spec == Init /\ [][Next]_vars

\* ------------------------------------------------------------------------
\* getHistoricalWeather on its own: the upstream outcome is drawn from every
\* hourly object with series of up to MaxHours entries over the values
\* below (every temperature series next to fixed precipitation and cloud
\* cover, every pair of precipitation and cloud cover series next to a
\* fixed temperature), and from the failures of the request
\* ------------------------------------------------------------------------
TemperatureValues == {NullNum, Tenths(-15), Tenths(124), Tenths(125)}
PrecipitationValues == {NullNum, Tenths(0), Tenths(50), Tenths(150)}
\* cloud cover comes in whole percents; 75 and 76 sit on the cloudy threshold
CloudCoverValues ==
    {NullNum, Tenths(100), Tenths(500), Tenths(750), Tenths(760)}
WindDirectionValues == {Tenths(100), Tenths(3500)}
SeriesOver(values, n) == [1..n -> values]
Constant(v, n) == [i \in 1..n |-> v]

\* the hourly object of a day of n hours
BoundedHourly(n, t, p, cc, wd) ==
    HourlyOf(t, Constant(Tenths(655), n), p, Constant(Tenths(10132), n), cc,
             Constant(Tenths(124), n), Constant(wd, n))

FailedOutcomes == {BodyWithoutHourly, HourlyWithoutArrays} \cup ErrorOutcomes

\* the pipeline at rest
PipelineAtRest ==
    /\ editions = [i \in {EditionId} |->
                      NewEdition(PastDate, Location(StrMadrid), NullLocation)]
    /\ now = 0
    /\ calls = [c \in Calls |-> IdleCall]
    /\ started = 0
    /\ forceUsed = FALSE
    /\ overlapped = FALSE
    /\ writeCount = 0
    /\ lastRead = NoRead

InitAgg ==
    /\ PipelineAtRest
    /\ AdminAtRest
    /\ chkInput = NoCheckInput
    /\ chkOutput = NoCheck
    /\ \/ \E n \in 0..MaxHours :
             \E t \in SeriesOver(TemperatureValues, n),
                wd \in WindDirectionValues :
                aggInput = DataOutcome(BoundedHourly(n, t,
                               Constant(Tenths(0), n),
                               Constant(Tenths(500), n), wd))
       \/ \E n \in 0..MaxHours :
             \E p \in SeriesOver(PrecipitationValues, n),
                cc \in SeriesOver(CloudCoverValues, n) :
                aggInput = DataOutcome(BoundedHourly(n,
                               Constant(Tenths(124), n), p, cc, Tenths(100)))
       \/ aggInput \in FailedOutcomes
    /\ aggOutput = NotRun

\* getHistoricalWeather, lines 327-420, applied to the outcome
RunGetHistoricalWeather ==
    /\ ~aggOutput.ran
    /\ LET r == getHistoricalWeather(aggInput, toISODate(PastDate), now)
       IN  aggOutput' = [ran |-> TRUE, threw |-> r.threw, value |-> r.value,
                         error |-> r.error]
    /\ UNCHANGED <<aggInput, chkInput, chkOutput, pipelineVars,
                   adminVars>>

NextAgg == RunGetHistoricalWeather

SpecAgg == InitAgg /\ [][NextAgg]_vars

\* ------------------------------------------------------------------------
\* The preconditions and the coordinate resolution on their own: the row
\* that findUnique returns is drawn from every combination of start date,
\* locations and weather flag, whoever wrote the row
\* ------------------------------------------------------------------------
StoredWeather == AggregateHourly(HourlyRain, toISODate(PastDate), 0)
LoadedRows ==
    {[NewEdition(sd, loc, ev) EXCEPT
         !.weatherFetched = f,
         !.weather = IF f THEN StoredWeather ELSE NoWeather] :
        sd \in {PastDate, FutureDate}, loc \in EditionLocations,
        ev \in EventLocations, f \in BOOLEAN}

InitCheck ==
    /\ PipelineAtRest
    /\ AdminAtRest
    /\ aggInput = BodyWithoutHourly
    /\ aggOutput = NotRun
    /\ \/ \E row \in LoadedRows, force \in BOOLEAN, t \in 0..MaxTime :
             chkInput = [found |-> TRUE, row |-> row, force |-> force,
                         now |-> t]
       \/ \E force \in BOOLEAN :
             chkInput = [found |-> FALSE, row |-> NoRow, force |-> force,
                         now |-> 0]
    /\ chkOutput = NoCheck

\* lines 487-534 applied to the loaded row; the request to the weather API
\* is sent exactly when the outcome is ok
RunCheckAndResolve ==
    /\ ~chkOutput.ran
    /\ LET r == CheckAndResolve(chkInput.found, chkInput.row, chkInput.force,
                                chkInput.now)
       IN  chkOutput' = [ran |-> TRUE, ok |-> r.ok, error |-> r.error,
                         coords |-> r.coords]
    /\ UNCHANGED <<chkInput, aggInput, aggOutput, pipelineVars,
                   adminVars>>

NextCheck == RunCheckAndResolve

SpecCheck == InitCheck /\ [][NextCheck]_vars

\* ------------------------------------------------------------------------
\* The admin operations on their own, on one competition in any status
\* ------------------------------------------------------------------------
InitAdmin ==
    /\ PipelineAtRest
    /\ aggInput = BodyWithoutHourly
    /\ aggOutput = NotRun
    /\ chkInput = NoCheckInput
    /\ chkOutput = NoCheck
    /\ \E st \in CompetitionStatus :
          competitions = [i \in {CompetitionId} |->
                             [status |-> st, description |-> BaseDescription]]
    /\ adminCalls = [a \in AdminCalls |-> IdleAdminCall]
    /\ adminStarted = 0
    /\ cache = CacheKeys

NextAdmin ==
    \/ \E a \in AdminCalls, id \in {CompetitionId, MissingCompetitionId} :
          \/ \E notes \in {"", "notes"} :
                AdminLoad(a, "approve", id, notes, "PUBLISHED")
          \/ AdminLoad(a, "reject", id, "reason", "DRAFT")
          \/ \E st \in CompetitionStatus : AdminLoad(a, "status", id, "", st)
    \/ \E a \in AdminCalls : AdminUpdate(a)
    \/ \E a \in AdminCalls : InvalidateCompetition(a)
    \/ \E a \in AdminCalls : InvalidateList(a)
    \/ \E a \in AdminCalls : AdminReturn(a)

SpecAdmin == InitAdmin /\ [][NextAdmin]_vars

\* ------------------------------------------------------------------------
\* Properties
\* ------------------------------------------------------------------------
Running(c) == calls[c].pc # "idle"
TheEdition == editions[EditionId]

\* C1: an invocation with force = false that loads an edition whose
\* weatherFetched is true fails with the already-fetched error (400), sends
\* no request to the weather API and writes nothing.
C1_AlreadyFetchedFails ==
    \A c \in Calls :
        (Running(c) /\ calls[c].sawFound /\ calls[c].sawFetched
                    /\ ~calls[c].force)
        => /\ calls[c].pc = "failed"
           /\ calls[c].error = AppError(MsgAlreadyFetched, 400)
           /\ calls[c].errors = 1
           /\ calls[c].apiCalls = 0
           /\ calls[c].writes = 0
C1_Witness ==
    \E c \in Calls : /\ calls[c].pc = "failed"
                     /\ calls[c].sawFetched /\ ~calls[c].force
                     /\ TheEdition.weatherFetched /\ writeCount = 1

CheckedFuture ==
    /\ chkOutput.ran /\ chkInput.found
    /\ chkInput.row.startDate > chkInput.now

\* C2 as stated: whatever weatherFetched and force are, an edition whose
\* start date is in the future fails with the future-date error, before any
\* coordinate resolution.
C2_FutureAlwaysFutureError ==
    CheckedFuture
    => /\ ~chkOutput.ok
       /\ ~chkOutput.coords.resolved
       /\ chkOutput.error = AppError(MsgFuture, 400)

\* C2 amended: an edition whose start date is in the future fails with a
\* 400 error before any coordinate resolution and before any request: the
\* already-fetched error when weatherFetched is true and force is false,
\* the future-date error in every other case.
C2_FutureFailsBeforeCoordinates ==
    CheckedFuture
    => /\ ~chkOutput.ok
       /\ ~chkOutput.coords.resolved
       /\ chkOutput.error =
            IF chkInput.row.weatherFetched /\ ~chkInput.force
            THEN AppError(MsgAlreadyFetched, 400)
            ELSE AppError(MsgFuture, 400)
C2_Witness ==
    /\ CheckedFuture
    /\ chkInput.row.location = Location(StrComma)
    /\ chkInput.row.weatherFetched /\ chkInput.force
    /\ chkOutput.error = AppError(MsgFuture, 400)

\* a signed decimal number: -?digits(.digits)?
IsDecimal(s) ==
    LET i0 == IF Len(s) >= 1 /\ s[1] = "-" THEN 2 ELSE 1
        ni == RunLen(s, i0, Digits)
        dot == i0 + ni
        nf == IF dot <= Len(s) /\ s[dot] = "." THEN RunLen(s, dot + 1, Digits)
              ELSE 0
    IN  /\ ni >= 1
        /\ \/ dot = Len(s) + 1
           \/ nf >= 1 /\ dot + nf = Len(s)
\* the string holds POINT(<lon> <lat>) with two signed decimal numbers
IsPointOfNumbers(str) ==
    LET m == PointMatch(str)
    IN  m.ok /\ IsDecimal(m.g1) /\ IsDecimal(m.g2)

CheckedCoordinates ==
    /\ chkOutput.ran /\ chkInput.found
    /\ ~(chkInput.row.weatherFetched /\ ~chkInput.force)
    /\ ~(chkInput.row.startDate > chkInput.now)

\* C6: once the preconditions pass, the coordinates come from the edition's
\* location if it has one, else from the event's, else the call fails with
\* the no-location error (400); a location that is not POINT(<lon> <lat>)
\* fails with the location-format error (500) without coordinates, one that
\* is yields longitude = first number, latitude = second number.
C6_CoordinateResolution ==
    CheckedCoordinates
    => LET row == chkInput.row
           fromEdition == Truthy(row.location)
           loc == IF fromEdition THEN row.location ELSE row.eventLocation
       IN  IF ~Truthy(loc)
           THEN /\ ~chkOutput.ok
                /\ chkOutput.error = AppError(MsgNoLocation, 400)
           ELSE IF IsPointOfNumbers(loc.str)
           THEN /\ chkOutput.ok
                /\ chkOutput.coords =
                     [resolved |-> TRUE,
                      source |-> IF fromEdition THEN "edition" ELSE "event",
                      longitude |-> parseFloat(PointMatch(loc.str).g1),
                      latitude |-> parseFloat(PointMatch(loc.str).g2)]
           ELSE /\ ~chkOutput.ok
                /\ chkOutput.error.status = 500
                /\ ~chkOutput.coords.resolved

\* the step is the write of invocation c
IsPersist(c) ==
    /\ calls[c].pc = "saving" /\ calls'[c].pc = "done"
    /\ editions' = [editions EXCEPT ![calls[c].editionId] =
                       [@ EXCEPT !.weather = calls[c].weather,
                                 !.weatherFetched = TRUE]]

\* C3 as stated: as long as no invocation passes force = true, the fields
\* are written at most once, whatever the interleaving.
C3_WrittenOnceWithoutForce == ~forceUsed => writeCount <= 1

\* C3 amended: the fields start null / false; only the write of a
\* successful fetch changes them; without force = true every invocation
\* that writes had loaded weatherFetched = false, and invocations that do
\* not overlap write at most once in total (overlapping ones may each
\* write).
C3_WrittenOnceSequentially ==
    /\ [](/\ (~forceUsed /\ ~overlapped) => writeCount <= 1
          /\ \A c \in Calls :
                (calls[c].writes > 0 /\ ~calls[c].force) => ~calls[c].sawFetched
          /\ (writeCount = 0) = (TheEdition.weather = NoWeather)
          /\ (writeCount = 0) = ~TheEdition.weatherFetched)
    /\ [][editions' # editions => \E c \in Calls : IsPersist(c)]_vars
C3_Witness ==
    /\ ~forceUsed /\ ~overlapped /\ writeCount = 1 /\ started >= 2
    /\ \E c \in Calls : calls[c].pc = "failed" /\ calls[c].sawFetched

\* both invocations passed the already-fetched check on the unfetched
\* edition and both have written
Raced(c, d) ==
    /\ c # d
    /\ calls[c].pc = "done" /\ calls[d].pc = "done"
    /\ ~calls[c].force /\ ~calls[d].force
    /\ ~calls[c].sawFetched /\ ~calls[d].sawFetched

\* C4 as stated: the writes of two racing invocations converge on one value,
\* the one either of them alone would have stored.
C4_WritesConverge ==
    \A c, d \in Calls :
        Raced(c, d) => /\ TheEdition.weatherFetched
                       /\ TheEdition.weather = calls[c].weather
                       /\ TheEdition.weather = calls[d].weather

\* C4 amended: two racing invocations each send their own request and each
\* write; the last write wins: every write replaces the stored value by the
\* writer's own, so the edition ends with weatherFetched = true and the
\* value of one of the two, which agree on the date but not necessarily on
\* the rest (fetchedAt, upstream data).
C4_LastWriteWins ==
    /\ [](\A c, d \in Calls :
            Raced(c, d) => /\ TheEdition.weatherFetched
                           /\ TheEdition.weather \in
                                {calls[c].weather, calls[d].weather}
                           /\ calls[c].weather.date = calls[d].weather.date
                           /\ calls[c].apiCalls = 1 /\ calls[d].apiCalls = 1
                           /\ calls[c].writes = 1 /\ calls[d].writes = 1)
    /\ [][\A c \in Calls :
            (calls[c].pc = "saving" /\ calls'[c].pc = "done")
            => /\ editions'[calls[c].editionId].weather = calls[c].weather
               /\ editions'[calls[c].editionId].weatherFetched]_vars
C4_Witness ==
    \E c, d \in Calls : Raced(c, d) /\ calls[c].weather # calls[d].weather

EditionWeatherFields ==
    {"date", "temperature", "condition", "conditionText", "precipitation",
     "wind", "humidity", "pressure", "cloudCover", "fetchedAt"}

\* C5: an invocation that fails raises one error, sends at most one request
\* (no retry) and writes nothing; one that succeeds has written once, leaves
\* weatherFetched = true and returns the stored weather value, with every
\* field of EditionWeather; no step other than that write changes the
\* edition.
C5_AllOrNothing ==
    /\ [](\A c \in Calls :
            /\ calls[c].pc = "failed"
               => /\ calls[c].errors = 1 /\ calls[c].error.isAppError
                  /\ calls[c].apiCalls <= 1
                  /\ calls[c].writes = 0
                  /\ calls[c].result = NoWeather
            /\ calls[c].pc = "done"
               => /\ calls[c].errors = 0 /\ calls[c].error = NoError
                  /\ calls[c].apiCalls = 1
                  /\ calls[c].writes = 1
                  /\ editions[calls[c].editionId].weatherFetched
                  /\ DOMAIN calls[c].result = EditionWeatherFields)
    /\ [][\A c \in Calls :
            /\ (calls'[c] # calls[c] /\ calls'[c].pc # "done")
               => editions' = editions
            /\ (calls[c].pc # "done" /\ calls'[c].pc = "done")
               => /\ editions'[calls[c].editionId].weatherFetched
                  /\ editions'[calls[c].editionId].weather = calls'[c].result
                  /\ calls'[c].result = calls[c].weather]_vars
C5_Witness ==
    \E c, d \in Calls :
        /\ calls[c].pc = "done" /\ calls[d].pc = "failed"
        /\ calls[d].apiCalls = 1 /\ calls[d].error.status = 500

\* C7: weatherFetched = true implies a non-null weather; weatherFetched
\* changes only from false to true and only by the write of a successful
\* fetch; getEditionWeather changes nothing and returns the edition's
\* weather and weatherFetched, or fails with not-found (404).
C7_FetchedStateMachine ==
    /\ [](TheEdition.weatherFetched => TheEdition.weather # NoWeather)
    /\ [][/\ TheEdition.weatherFetched => TheEdition'.weatherFetched
          /\ (~TheEdition.weatherFetched /\ TheEdition'.weatherFetched)
             => \E c \in Calls : IsPersist(c)
          /\ lastRead'.ran
             => /\ editions' = editions /\ calls' = calls
                /\ IF lastRead'.found
                   THEN /\ lastRead'.weather = TheEdition.weather
                        /\ lastRead'.weatherFetched = TheEdition.weatherFetched
                        /\ lastRead'.error = NoError
                   ELSE lastRead'.error = AppError(MsgNotFound, 404)]_vars
C7_Witness ==
    /\ TheEdition.weatherFetched
    /\ lastRead.ran /\ lastRead.found /\ lastRead.weatherFetched
    /\ lastRead.weather = TheEdition.weather

\* message ends with cause and has something before it
EndsWith(message, cause) ==
    /\ Len(message) > Len(cause)
    /\ SubSeq(message, Len(message) - Len(cause) + 1, Len(message)) = cause

\* C8: getHistoricalWeather throws exactly one typed error per failure: 404
\* for a body without hourly data (the AppError raised inside passes through,
\* not rewrapped), 404 for an upstream 404, 500 with the cause's message in
\* its message for any other failure; and it throws only on failure.
C8_ErrorMapping ==
    aggOutput.ran
    => LET in == aggInput
           err == aggOutput.error
       IN  IF in.kind = "data" /\ in.hasHourly /\ in.hasArrays
           THEN ~aggOutput.threw /\ err = NoError
           ELSE /\ aggOutput.threw /\ err.isAppError
                /\ aggOutput.value = NoWeather
                /\ IF in.kind = "data" /\ ~in.hasHourly
                   THEN err = AppError(MsgNoHourly, 404)
                   ELSE IF in.kind = "error" /\ in.hasResponse
                           /\ in.status = 404
                   THEN err = AppError(MsgUpstream404, 404)
                   ELSE /\ err.status = 500
                        /\ EndsWith(err.message,
                                    IF in.kind = "error" THEN in.message
                                    ELSE MsgTypeError)
C8_Witness ==
    /\ aggOutput.ran /\ aggInput = BodyWithoutHourly
    /\ aggOutput.error.status = 404

Aggregated == aggOutput.ran /\ ~aggOutput.threw

ConditionLabel(code) ==
    CASE code = "rainy" -> "Lluvioso"
      [] code = "light_rain" -> "Lluvia ligera"
      [] code = "cloudy" -> "Nublado"
      [] code = "partly_cloudy" -> "Parcialmente nublado"
      [] code = "sunny" -> "Soleado"

\* C9: for total precipitation p >= 0 and average cloud cover cc in 0..100
\* the condition is exactly one of five codes: rainy iff p > 10; light_rain
\* iff 0 < p <= 10; cloudy iff p = 0 and cc > 75; partly_cloudy iff p = 0
\* and 30 < cc <= 75; sunny iff p = 0 and cc <= 30; and the text is the
\* label of the code.
C9_ConditionClassifier ==
    Aggregated
    => LET p == TotalPrecipitation(aggInput.hourly.precipitation)
           cc == calculateAverage(aggInput.hourly.cloud_cover)
           w == aggOutput.value
       IN  /\ w.condition \in {"rainy", "light_rain", "cloudy",
                               "partly_cloudy", "sunny"}
           /\ (w.condition = "rainy") = (p.n > 10 * p.d)
           /\ (w.condition = "light_rain") = (p.n > 0 /\ p.n <= 10 * p.d)
           /\ (w.condition = "cloudy") = (p.n = 0 /\ cc.n > 75 * cc.d)
           /\ (w.condition = "partly_cloudy")
                = (p.n = 0 /\ cc.n > 30 * cc.d /\ cc.n <= 75 * cc.d)
           /\ (w.condition = "sunny") = (p.n = 0 /\ cc.n <= 30 * cc.d)
           /\ w.conditionText = ConditionLabel(w.condition)
C9_Witness ==
    /\ Aggregated
    /\ TotalPrecipitation(aggInput.hourly.precipitation) = Rat(150, 10)
    /\ calculateAverage(aggInput.hourly.cloud_cover) = Rat(500, 10)
    /\ aggOutput.value.condition = "rainy"

\* C10: in every aggregation result, also one from a temperature series
\* whose entries are all null, temperature.min <= temperature.avg <=
\* temperature.max.
C10_TemperatureOrdered ==
    Aggregated
    => LET t == aggOutput.value.temperature
       IN  Leq(t.min, t.avg) /\ Leq(t.avg, t.max)

\* precipitation, cloudCover, condition and conditionText of every value
\* getHistoricalWeather produces from the bounded precipitation and cloud
\* cover series
ProducedConditions ==
    UNION {{LET w == AggregateHourly(
                        BoundedHourly(n, Constant(Tenths(124), n), p, cc,
                                      Tenths(100)),
                        toISODate(PastDate), 0)
            IN  [precipitation |-> w.precipitation,
                 cloudCover |-> w.cloudCover,
                 condition |-> w.condition,
                 conditionText |-> w.conditionText] :
               p \in SeriesOver(PrecipitationValues, n),
               cc \in SeriesOver(CloudCoverValues, n)} : n \in 0..MaxHours}

\* C11 as stated: any two produced values with equal precipitation and equal
\* cloudCover fields have the same condition and the same conditionText.
C11_ConditionFromFields ==
    Aggregated
    => \A v \in ProducedConditions :
          (/\ v.precipitation = aggOutput.value.precipitation
           /\ v.cloudCover = aggOutput.value.cloudCover)
          => /\ v.condition = aggOutput.value.condition
             /\ v.conditionText = aggOutput.value.conditionText

\* C11 amended: condition is decided by the unrounded total and average, so
\* the rounded fields fix it only away from the thresholds: precipitation
\* > 10 gives rainy, 0 < precipitation < 10 gives light_rain, precipitation
\* = 10 gives rainy or light_rain, and precipitation = 0 gives light_rain,
\* or cloudy with cloudCover >= 75, or partly_cloudy with 30 <= cloudCover
\* <= 75, or sunny with cloudCover <= 30; conditionText is the label of
\* condition.
C11_ConditionWithinRounding ==
    Aggregated
    => LET w == aggOutput.value
           p == w.precipitation
           cc == w.cloudCover
       IN  /\ p.n > 10 * p.d => w.condition = "rainy"
           /\ (p.n > 0 /\ p.n < 10 * p.d) => w.condition = "light_rain"
           /\ p.n = 10 * p.d => w.condition \in {"rainy", "light_rain"}
           /\ p.n = 0
              => \/ w.condition = "light_rain"
                 \/ w.condition = "cloudy" /\ cc.n >= 75 * cc.d
                 \/ /\ w.condition = "partly_cloudy"
                    /\ cc.n >= 30 * cc.d /\ cc.n <= 75 * cc.d
                 \/ w.condition = "sunny" /\ cc.n <= 30 * cc.d
           /\ w.conditionText = ConditionLabel(w.condition)
C11_Witness ==
    /\ Aggregated
    /\ aggOutput.value.precipitation = Rat(0, 10)
    /\ aggOutput.value.cloudCover = Rat(75, 1)
    /\ aggOutput.value.condition = "cloudy"

\* C12: approveCompetition sets PUBLISHED only on a competition that is
\* DRAFT when the update runs, rejectCompetition appends its reason only to
\* a competition that is DRAFT when the update runs and leaves the status
\* alone, and either of them, called on a missing or non-DRAFT competition,
\* fails with an error and writes nothing.
C12_OnlyDraftApprovedOrRejected ==
    \A a \in AdminCalls :
        LET c == adminCalls[a]
        IN  /\ (c.op = "approve" /\ c.wrote)
               => c.before.status = "DRAFT" /\ c.after.status = "PUBLISHED"
            /\ (c.op = "reject" /\ c.wrote)
               => /\ c.before.status = "DRAFT"
                  /\ c.after.status = c.before.status
            /\ (/\ c.pc # "idle" /\ c.op \in {"approve", "reject"}
                /\ (~c.found \/ c.loaded.status # "DRAFT"))
               => c.pc = "failed" /\ c.error # "" /\ ~c.wrote

====
